---- MODULE Spec2Model ----
(***************************************************************************)
(* Model of src/bot.js: the Bot reconciler (class Bot) driven by the       *)
(* script's first run(), the express admin routes, timer expiries, status  *)
(* probe completions and child-process exit events.                        *)
(*                                                                         *)
(* One action is one JavaScript macrotask: everything a callback does      *)
(* until it returns to the event loop, its promise continuations and       *)
(* nextTick callbacks included.                                            *)
(***************************************************************************)
EXTENDS Integers, Sequences, FiniteSets, Bags, TLC

\* ---------------------------------------------------------------- bounds
Names == {"alice", "bob"}          \* streamer names the admin may pass
NoName == ""                       \* a missing ?streamer= parameter
MaxLoops == 2                      \* run() invocations in flight + armed timers
MaxProcs == 3                      \* child processes alive at once

VARIABLES
    host,        \* the node process: "up", "stopped" (process.exit) or "crashed"
    file,        \* /data/config.json: the list of streamers on disk
    config,      \* this.config: [loaded, streamers]; loaded = FALSE is null
    streamers,   \* this.streamers: name -> [recording, paused, proc, meta];
                 \* proc is the ChildProcess object: [st, sig]
    running,     \* this.running
    timeout,     \* this.timeout: "null", "false", or a handle: "armed" or "cleared"
    orphans,     \* armed timers whose handle this.timeout no longer holds
    ticks,       \* run() invocations awaiting Promise.all: bag of [pending, rejected]
    strays,      \* live children no record references: bag of [name, sig]
    last         \* the callback that ran last: [op, name, res]

vars == <<host, file, config, streamers, running, timeout, orphans, ticks, strays, last>>

\* ---------------------------------------------------------------- values
\* proc: null (l.243, l.235) or false (l.188), both falsy
NoProc == [st |-> "none", sig |-> FALSE]

\* the object spawn() returns, l.177
NewProc == [st |-> "live", sig |-> FALSE]

DefaultRecord == [recording |-> FALSE, paused |-> FALSE, proc |-> NoProc, meta |-> "false"]

InitialFiles == {<<"alice">>}

\* what getInfo resolves to: a payload whose room_status is 'public', or false
\* (l.158). A payload with another room_status takes every branch false takes.
Infos == {"public", "false"}

ExitOutcomes == {"exit0", "exit1", "killed"}

Label(op, name, res) == [op |-> op, name |-> name, res |-> res]

ErrNoParam == "Error: No streamer parameter supplied"
ErrDuplicate == "Error: Streamer already in streamers list"
ErrNotInList == "Error: Streamer is not in streamers list"
ErrNotRunning == "Error: Bot not running"
ErrType == "TypeError"

\* ---------------------------------------------------------------- helpers
Includes(seq, name) == \E i \in 1 .. Len(seq) : seq[i] = name

Filter(seq, name) == SelectSeq(seq, LAMBDA s : s # name)

Keys(s) == DOMAIN s

Delete(s, name) == [n \in (DOMAIN s) \ {name} |-> s[n]]

ClearTimeoutForgets(h) == h

\* l.25, l.43, l.62: this.timeout && clearTimeout(this.timeout); the variable
\* keeps the handle of the timer it disarmed
ClearTimeout(h) == IF h = "armed" THEN "cleared" ELSE h

\* l.222, l.261: overwriting this.timeout leaves the timer it held armed
Dropped(h) == IF h = "armed" THEN 1 ELSE 0

Armed == orphans + Dropped(timeout)

Chains == BagCardinality(ticks) + Armed

Stray(name, sig) == SetToBag({[name |-> name, sig |-> sig]})

\* the children started for name that have not exited
LiveProcs(name) ==
    (IF name \in Keys(streamers) /\ streamers[name].proc.st = "live" THEN 1 ELSE 0)
    + CopiesIn([name |-> name, sig |-> FALSE], strays)
    + CopiesIn([name |-> name, sig |-> TRUE], strays)

LiveTotal == BagCardinality(strays)
             + Cardinality({n \in Keys(streamers) : streamers[n].proc.st = "live"})

\* proc.kill('SIGINT'): delivered only to a process that has not exited
Kill(proc) == IF proc.st = "live" THEN [proc EXCEPT !.sig = TRUE] ELSE proc

\* the live children of registry s0 that registry s1 no longer references
RECURSIVE StrayBag(_, _)
StrayBag(s, S) ==
    IF S = {} THEN EmptyBag
    ELSE LET n == CHOOSE m \in S : TRUE
         IN  Stray(n, s[n].proc.sig) (+) StrayBag(s, S \ {n})

Lost(s0, s1) ==
    StrayBag(s0, {n \in Keys(s0) : s0[n].proc.st = "live" /\
                     (n \notin Keys(s1) \/ s1[n].proc.st # "live")})

\* ---------------------------------------------------------------- run()
\* reloadConfig, l.142-148
reloadConfig(cfg, f) ==
    IF ~cfg.loaded \/ cfg.streamers # f THEN [loaded |-> TRUE, streamers |-> f] ELSE cfg

ProcAliveFlipped(rec) == rec.proc # NoProc /\ rec.proc.st = "exit1"

\* l.230: proc && !proc.exitCode
ProcAlive(rec) == rec.proc # NoProc /\ rec.proc.st # "exit1"

\* l.227-247: sync the registry to the configured names
SyncRecord(s, name) ==
    IF name \in DOMAIN s
    THEN IF s[name].recording /\ ~ProcAlive(s[name])
         THEN [s[name] EXCEPT !.recording = FALSE, !.proc = NoProc]
         ELSE s[name]
    ELSE DefaultRecord

SyncRegistry(s, names) ==
    [n \in (DOMAIN s) \cup {names[i] : i \in 1 .. Len(names)} |->
        IF Includes(names, n) THEN SyncRecord(s, n) ELSE s[n]]

PruneKeepsConfigured(s, names, n) == Includes(names, n)

PruneKeepsAll(s, names, n) == TRUE

\* l.250-255: which records the prune step keeps
PruneKeeps(s, names, n) == Includes(names, n) \/ s[n].recording

Prune(s, names) == [n \in {m \in DOMAIN s : PruneKeeps(s, names, m)} |-> s[n]]

Reconciled(s, names) == Prune(SyncRegistry(s, names), names)

\* run(), l.220-264, up to the await, and past it when there is nothing to
\* probe: entered with this.config = cfg0, the file holding f, the registry
\* s0, this.timeout = h and orph other timers armed.
Run(cfg0, f, s0, h, orph) ==
    LET cfg == reloadConfig(cfg0, f)
        reg == Reconciled(s0, cfg.streamers)
    IN  /\ running' = TRUE
        /\ config' = cfg
        /\ streamers' = reg
        /\ strays' = strays (+) Lost(streamers, reg)
        /\ orphans' = orph + Dropped(h)
        /\ IF Keys(reg) = {}
           THEN /\ ticks' = ticks
                /\ timeout' = "armed"
           ELSE /\ ticks' = ticks (+) SetToBag({[pending |-> Keys(reg), rejected |-> FALSE]})
                /\ timeout' = "false"

\* ---------------------------------------------------------------- Init
Init ==
    /\ host = "up"
    /\ file \in InitialFiles
    /\ config = [loaded |-> FALSE, streamers |-> <<>>]
    /\ streamers = <<>>
    /\ running = FALSE
    /\ timeout = "null"
    /\ orphans = 0
    /\ ticks = EmptyBag
    /\ strays = EmptyBag
    /\ last = Label("new", NoName, "-")

\* l.305-306: the script calls bot.run() before the server listens
Boot ==
    /\ host = "up" /\ ~config.loaded
    /\ Run(config, file, streamers, timeout, orphans)
    /\ last' = Label("boot", NoName, "true")
    /\ UNCHANGED <<host, file>>

Ready == host = "up" /\ config.loaded

\* GET /api/run, l.323-326
ApiRun ==
    /\ Ready
    /\ Chains < MaxLoops
    /\ Run(config, file, streamers, timeout, orphans)
    /\ last' = Label("run", NoName, "true")
    /\ UNCHANGED <<host, file>>

\* a timer armed at l.261 expires: the one this.timeout holds, or another
TimerFire(held) ==
    /\ host = "up"
    /\ IF held
       THEN /\ timeout = "armed"
            /\ Run(config, file, streamers, "false", orphans)
       ELSE /\ orphans > 0
            /\ Run(config, file, streamers, timeout, orphans - 1)
    /\ last' = Label("timer", NoName, "true")
    /\ UNCHANGED <<host, file>>

\* ---------------------------------------------------------------- admin
\* pause(), l.37-49
pause ==
    /\ Ready
    /\ IF ~running
       THEN /\ last' = Label("pause", NoName, ErrNotRunning)
            /\ UNCHANGED <<running, timeout>>
       ELSE /\ timeout' = ClearTimeout(timeout)
            /\ running' = FALSE
            /\ last' = Label("pause", NoName, "true")
    /\ UNCHANGED <<host, file, config, streamers, orphans, ticks, strays>>

AddCheckNoDuplicate(name, names) == IF name = NoName THEN ErrNoParam ELSE "true"

\* l.52-60: the reason addStreamer throws, or "true"
AddCheck(name, names) ==
    IF name = NoName THEN ErrNoParam
    ELSE IF Includes(names, name) THEN ErrDuplicate
    ELSE "true"

\* addStreamer(name), l.51-74
addStreamer(name) ==
    /\ Ready
    /\ LET res == AddCheck(name, config.streamers)
       IN  IF res # "true"
           THEN /\ last' = Label("addStreamer", name, res)
                /\ UNCHANGED <<host, file, config, streamers, running, timeout, orphans,
                               ticks, strays>>
           ELSE /\ file' = Append(config.streamers, name)
                /\ last' = Label("addStreamer", name, "true")
                /\ host' = host
                /\ IF running
                   THEN /\ Chains - Dropped(timeout) < MaxLoops
                        /\ Run([config EXCEPT !.streamers = file'], file', streamers,
                               ClearTimeout(timeout), orphans)
                   ELSE /\ config' = [config EXCEPT !.streamers = file']
                        /\ timeout' = ClearTimeout(timeout)
                        /\ UNCHANGED <<streamers, running, orphans, ticks, strays>>

\* l.77-84: the reason removeStreamer throws, or "true"
RemoveCheck(name, names) ==
    IF name = NoName THEN ErrNoParam
    ELSE IF ~Includes(names, name) THEN ErrNotInList
    ELSE "true"

\* removeStreamer(name), l.76-91
removeStreamer(name) ==
    /\ Ready
    /\ LET res == RemoveCheck(name, config.streamers)
       IN  /\ last' = Label("removeStreamer", name, res)
           /\ IF res # "true"
              THEN UNCHANGED <<file, config>>
              ELSE /\ config' = [config EXCEPT !.streamers = Filter(config.streamers, name)]
                   /\ file' = config'.streamers
    /\ UNCHANGED <<host, streamers, running, timeout, orphans, ticks, strays>>

\* l.94-102 and l.115-123, then the first use of this.streamers[name]
MemberCheck(name, names, s) ==
    IF name = NoName THEN ErrNoParam
    ELSE IF ~Includes(names, name) /\ name \notin Keys(s) THEN ErrNotInList
    ELSE IF name \notin Keys(s) THEN ErrType
    ELSE "true"

PauseRecordNoKill(rec) == [rec EXCEPT !.paused = TRUE]

\* l.104-109: what pauseStreamer does to the record and its process
PauseRecord(rec) == [rec EXCEPT !.proc = Kill(@), !.paused = TRUE]

\* pauseStreamer(name), l.93-112
pauseStreamer(name) ==
    /\ Ready
    /\ LET res == MemberCheck(name, config.streamers, streamers)
       IN  /\ last' = Label("pauseStreamer", name, res)
           /\ IF res # "true"
              THEN UNCHANGED <<streamers, strays>>
              ELSE /\ streamers' = [streamers EXCEPT ![name] = PauseRecord(@)]
                   /\ strays' = strays
    /\ UNCHANGED <<host, file, config, running, timeout, orphans, ticks>>

\* resumeStreamer(name), l.114-133
resumeStreamer(name) ==
    /\ Ready
    /\ LET res == MemberCheck(name, config.streamers, streamers)
       IN  /\ last' = Label("resumeStreamer", name, res)
           /\ IF res # "true"
              THEN UNCHANGED <<config, streamers, running, timeout, orphans, ticks, strays>>
              ELSE IF running
              THEN /\ Chains < MaxLoops
                   /\ Run(config, file, [streamers EXCEPT ![name].paused = FALSE],
                          timeout, orphans)
              ELSE /\ streamers' = [streamers EXCEPT ![name].paused = FALSE]
                   /\ UNCHANGED <<config, running, timeout, orphans, ticks, strays>>
    /\ UNCHANGED <<host, file>>

\* the node process is gone: its heap, its timers and its pending callbacks
\* with it; the children it started live on
HostGone(how, s, left) ==
    /\ host' = how
    /\ config' = [loaded |-> FALSE, streamers |-> <<>>]
    /\ streamers' = <<>>
    /\ strays' = left (+) Lost(s, <<>>)
    /\ running' = FALSE
    /\ timeout' = "null"
    /\ orphans' = 0
    /\ ticks' = EmptyBag

StopKillsNone(s) == s

\* l.29-31: stop() signals the process of every record that has one
StopKills(s) == [n \in Keys(s) |-> [s[n] EXCEPT !.proc = Kill(@)]]

\* stop(), l.22-35: SIGINT or SIGTERM
stop ==
    /\ Ready
    /\ HostGone("stopped", StopKills(streamers), strays)
    /\ last' = Label("stop", NoName, "exit")
    /\ UNCHANGED file

\* ---------------------------------------------------------------- events
ShouldStartAnyway(rec, info) == info = "public"

\* l.170: whether updateStreamer starts a recording
ShouldStart(rec, info) == info = "public" /\ ~rec.recording

HeldNever(rec) == FALSE

\* l.166: the administrative hold
Held(rec) == rec.paused

ObservedKeepsFlag(s, names, name) ==
    IF Includes(names, name)
    THEN [s EXCEPT ![name] = [@ EXCEPT !.proc = NoProc]]
    ELSE Delete(s, name)

\* l.185-208: what the exit and error observers do to the registry
Observed(s, names, name) ==
    IF Includes(names, name)
    THEN [s EXCEPT ![name] = [@ EXCEPT !.proc = NoProc, !.recording = FALSE]]
    ELSE Delete(s, name)

\* l.187-189, l.200-202: the observer throws when the name is configured and
\* its record is gone
ObserverThrows(s, names, name) == Includes(names, name) /\ name \notin Keys(s)

\* l.258-263: the state of tick t once the probe of name has been handled
Settle(t, name, threw) ==
    [pending |-> t.pending \ {name}, rejected |-> t.rejected \/ threw]

\* l.166-170: whether updateStreamer(name), resumed with info, calls spawn()
Spawns(s, name, info) == ~Held(s[name]) /\ ShouldStart(s[name], info)

\* l.163-183: the registry after updateStreamer(name) resumes with info
Updated(s, names, name, info, spawned) ==
    LET rec == [s[name] EXCEPT !.meta = info]
    IN  IF ~Spawns(s, name, info) THEN [s EXCEPT ![name] = rec]
        ELSE IF spawned
        THEN [s EXCEPT ![name] = [rec EXCEPT !.proc = NewProc, !.recording = TRUE]]
        ELSE Observed([s EXCEPT ![name] = rec], names, name)

\* l.182: the live child whose handle a new one overwrites
Overwritten(s, name) ==
    IF s[name].proc.st = "live" THEN Stray(name, s[name].proc.sig) ELSE EmptyBag

\* the probe of name issued by tick t completes with info: the rest of
\* updateStreamer (l.163-209) and, when it was the tick's last probe, the rest
\* of run() (l.260-263). spawned says whether spawn() gets a process; when it
\* does not, the 'error' observer (l.197-208) runs before the next event.
\* A probe whose record is gone throws at l.164: run() rejects, and the
\* rejection nobody handles ends the node process or is only reported.
ProbeReturn(t, name, info, spawned, fatal) ==
    /\ host = "up"
    /\ BagIn(t, ticks) /\ name \in t.pending
    /\ LET threw == name \notin Keys(streamers)
           t2 == Settle(t, name, threw)
           rest == ticks (-) SetToBag({t})
           reg == IF threw THEN streamers
                  ELSE Updated(streamers, config.streamers, name, info, spawned)
           starts == ~threw /\ Spawns(streamers, name, info) /\ spawned
       IN  IF threw /\ ~t.rejected /\ fatal
           THEN /\ info = "false" /\ spawned
                /\ HostGone("crashed", streamers, strays)
                /\ last' = Label("probe", name, ErrType)
           ELSE /\ ~fatal
                /\ threw => (info = "false" /\ spawned)
                /\ (~threw /\ ~Spawns(streamers, name, info)) => spawned
                /\ starts => LiveTotal < MaxProcs
                /\ host' = host
                /\ ticks' = IF t2.pending = {} THEN rest ELSE rest (+) SetToBag({t2})
                /\ IF t2.pending = {} /\ ~t2.rejected
                   THEN /\ timeout' = "armed"
                        /\ orphans' = orphans + Dropped(timeout)
                   ELSE UNCHANGED <<timeout, orphans>>
                /\ last' = Label("probe", name, IF threw THEN ErrType
                                                ELSE IF spawned THEN "ok" ELSE "error")
                /\ streamers' = reg
                /\ strays' = IF starts THEN strays (+) Overwritten(streamers, name)
                             ELSE strays (+) Lost(streamers, reg)
                /\ UNCHANGED <<config, running>>
    /\ UNCHANGED file

\* a child the registry references ends. Its 'exit' observer (l.185-195) runs:
\* the host is up, or there would be no registry.
ProcExit(name, how) ==
    /\ host = "up"
    /\ name \in Keys(streamers) /\ streamers[name].proc.st = "live"
    /\ streamers' = Observed([streamers EXCEPT ![name].proc.st = how],
                             config.streamers, name)
    /\ last' = Label("exit", name, "ok")
    /\ UNCHANGED <<host, file, config, running, timeout, orphans, ticks, strays>>

\* a child no record references ends. While the node process is up its 'exit'
\* observer (l.185-195) runs; an exception thrown there is uncaught and ends
\* the host.
StrayExit(name, sig) ==
    /\ BagIn([name |-> name, sig |-> sig], strays)
    /\ LET reg == Observed(streamers, config.streamers, name)
           rest == strays (-) Stray(name, sig)
       IN  IF host # "up"
           THEN /\ strays' = rest
                /\ UNCHANGED <<host, config, streamers, running, timeout, orphans, ticks, last>>
           ELSE IF ObserverThrows(streamers, config.streamers, name)
           THEN /\ HostGone("crashed", streamers, rest)
                /\ last' = Label("exit", name, ErrType)
           ELSE /\ streamers' = reg
                /\ strays' = rest (+) Lost(streamers, reg)
                /\ last' = Label("exit", name, "ok")
                /\ UNCHANGED <<host, config, running, timeout, orphans, ticks>>
    /\ UNCHANGED file

Next ==
    \/ Boot
    \/ ApiRun
    \/ pause
    \/ stop
    \/ \E held \in BOOLEAN : TimerFire(held)
    \/ \E name \in Names \cup {NoName} : addStreamer(name)
    \/ \E name \in Names \cup {NoName} : removeStreamer(name)
    \/ \E name \in Names \cup {NoName} : pauseStreamer(name)
    \/ \E name \in Names \cup {NoName} : resumeStreamer(name)
    \/ \E t \in BagToSet(ticks), name \in Names, info \in Infos, spawned, fatal \in BOOLEAN :
          ProbeReturn(t, name, info, spawned, fatal)
    \/ \E name \in Names, how \in ExitOutcomes : ProcExit(name, how)
    \/ \E name \in Names, sig \in BOOLEAN : StrayExit(name, sig)

Spec == Init /\ [][Next]_vars

\* The event loop runs every timer that stays armed and every probe ends:
\* axios resolves or rejects each request.
FairSpec ==
    /\ Spec
    /\ WF_vars(\E held \in BOOLEAN : TimerFire(held))
    /\ WF_vars(\E t \in BagToSet(ticks), name \in Names, info \in Infos,
                  spawned, fatal \in BOOLEAN : ProbeReturn(t, name, info, spawned, fatal))

\* ---------------------------------------------------------------- the sync step alone
\* l.228-230 reads recording, proc and proc.exitCode of a record: the values a
\* ChildProcess handle takes (running; exited with code 0, with another code,
\* or by a signal) and the two empty ones
SyncProcs == {NoProc} \cup {[st |-> st, sig |-> FALSE] : st \in {"live"} \cup ExitOutcomes}

SyncRecords == [recording : BOOLEAN, paused : {FALSE}, proc : SyncProcs, meta : {"false"}]

SyncFiles == {<<"alice">>, <<"alice", "bob">>}

\* the sync step (l.227-247) on every registry it can be handed, the ones an
\* exit observer that did not run would leave included: a timer is armed, the
\* loop is running and no tick is in flight
SyncInit ==
    /\ host = "up"
    /\ file \in SyncFiles
    /\ config = [loaded |-> TRUE, streamers |-> file]
    /\ \E S \in SUBSET Names : streamers \in [S -> SyncRecords]
    /\ running = TRUE
    /\ timeout = "armed"
    /\ orphans = 0
    /\ ticks = EmptyBag
    /\ strays = EmptyBag
    /\ last = Label("new", NoName, "-")

\* the tick starts: by its timer or by GET /api/run
SyncNext == TimerFire(TRUE) \/ ApiRun

SyncSpec == SyncInit /\ [][SyncNext]_vars

\* ---------------------------------------------------------------- a whole tick
\* l.258: every updateStreamer of the tick has resumed; infos[n] is what the
\* probe of n returned and spawned[n] whether spawn() got a process for n. A
\* probe whose record is gone throws (l.164) and changes nothing.
RECURSIVE UpdateAll(_, _, _, _, _)
UpdateAll(s, names, S, infos, spawned) ==
    IF S = {} THEN s
    ELSE LET n == CHOOSE m \in S : TRUE
             s1 == IF n \in Keys(s) THEN Updated(s, names, n, infos[n], spawned[n]) ELSE s
         IN  UpdateAll(s1, names, S \ {n}, infos, spawned)

\* run(), l.227-258, with no other callback in between: the registry at l.260
RunOnce(s, names, infos, spawned) ==
    LET reg == Reconciled(s, names)
    IN  UpdateAll(reg, names, Keys(reg), infos, spawned)

\* l.170-177: the names that tick starts a process for
StartedBy(s, names, infos, spawned) ==
    LET reg == Reconciled(s, names)
    IN  {n \in Keys(reg) : Spawns(reg, n, infos[n]) /\ spawned[n]}

\* ---------------------------------------------------------------- claims
Configured(n) == Includes(config.streamers, n)

Has(n) == n \in Keys(streamers)

InFlight == {t \in BagToSet(ticks) : ~t.rejected}

\* the callback that led to this state entered run()
TickStarted ==
    \/ last.op \in {"boot", "run", "timer"}
    \/ last.op \in {"addStreamer", "resumeStreamer"} /\ last.res = "true" /\ running

\* C1: no entity name ever has two started child processes that have both
\* not yet exited.
C1_OneLiveProcess == \A n \in Names : LiveProcs(n) <= 1

\* a probe of n reported 'public' while n, unpaused, already had a live child
\* (one that was signalled before, so it is not the child of this probe)
C1_Witness ==
    \E n \in Names :
        /\ last = Label("probe", n, "ok") /\ Has(n)
        /\ streamers[n].meta = "public" /\ ~streamers[n].paused
        /\ streamers[n].proc = [st |-> "live", sig |-> TRUE]

\* C2: at no time are two invocations of run() both awaiting their probes.
C2_NoConcurrentTicks ==
    \A t \in InFlight : CopiesIn(t, ticks) = 1 /\ \A u \in InFlight : u = t

\* C3: once pause() has returned true, until run() is called explicitly the
\* running flag stays false, no timer is armed and no process is started.
C3_PauseHolds ==
    [][(Ready /\ ~running /\ last'.op # "run")
         => /\ ~running'
            /\ Armed' <= Armed
            /\ \A n \in Names : LiveProcs(n)' <= LiveProcs(n)]_vars

\* C4: a child process is only ever started for an entity whose record is
\* not paused at the moment of the spawn.
C4_PausedNeverStarted ==
    [][\A n \in Names : LiveProcs(n)' > LiveProcs(n)
                           => (Has(n) /\ ~streamers[n].paused)]_vars

\* a probe of n reported 'public' while n was paused, and nothing was started
C4_Witness ==
    \E n \in Names :
        /\ last = Label("probe", n, "ok") /\ Has(n)
        /\ streamers[n].paused /\ streamers[n].meta = "public"
        /\ ~streamers[n].recording /\ LiveProcs(n) = 0

\* C5 as claimed: right after pauseStreamer(E) returns, a recording E has been
\* signalled, is paused and is no longer recording; a non-recording E has only
\* its paused flag changed.
C5_PauseStopsRecording ==
    [][\A n \in Names : last' = Label("pauseStreamer", n, "true") =>
          IF streamers[n].recording
          THEN /\ streamers'[n].paused /\ ~streamers'[n].recording
               /\ streamers[n].proc.st = "live" /\ strays' = strays
          ELSE /\ streamers' = [streamers EXCEPT ![n].paused = TRUE]
               /\ strays' = strays]_vars

\* C5 amended: right after pauseStreamer(E) returns, a recording E is paused
\* and its process has been sent the interrupt, while the record still says
\* recording and still holds the process; a non-recording E has only its
\* paused flag changed.
C5_PauseSignals ==
    [][\A n \in Names : last' = Label("pauseStreamer", n, "true") =>
          IF streamers[n].recording
          THEN /\ streamers' = [streamers EXCEPT ![n].paused = TRUE, ![n].proc.sig = TRUE]
               /\ streamers[n].proc.st = "live" /\ strays' = strays
          ELSE /\ streamers' = [streamers EXCEPT ![n].paused = TRUE]
               /\ strays' = strays]_vars

\* pauseStreamer(n) has just returned for an n that is recording
C5_Witness ==
    \E n \in Names :
        /\ last = Label("pauseStreamer", n, "true")
        /\ streamers[n].recording /\ streamers[n].paused
        /\ streamers[n].proc = [st |-> "live", sig |-> TRUE]

\* n is recording and no longer configured
Draining(n) ==
    /\ Ready /\ ~Configured(n) /\ Has(n)
    /\ streamers[n].recording /\ streamers[n].proc.st = "live"

\* C6: removeStreamer(E) signals nothing and leaves the registry alone; a
\* recording E that is out of the configuration keeps its record, recording,
\* through every tick until its process exits, and that exit deletes it.
C6_Drain ==
    [][\A n \in Names :
          /\ last' = Label("removeStreamer", n, "true")
                => (streamers' = streamers /\ strays' = strays)
          /\ (Draining(n) /\ host' = "up")
                => \/ Draining(n)' /\ LiveProcs(n)' = 1
                   \/ Configured(n)'
                   \/ last' = Label("exit", n, "ok") /\ ~Has(n)' /\ LiveProcs(n)' = 0]_vars

\* a tick has just started while n, removed from the configuration, records
C6_Witness ==
    \E n \in Names : Draining(n) /\ last = Label("timer", NoName, "true")

\* n stays configured and unpaused, its probe says 'public', spawn() works
\* for it and the loop is running
Steady(n) ==
    /\ Ready /\ running /\ Configured(n)
    /\ Has(n) /\ ~streamers[n].paused /\ streamers[n].meta = "public"
    /\ last # Label("probe", n, "error")

Recording(n) == Has(n) /\ streamers[n].recording /\ streamers[n].proc.st = "live"

\* C7: an entity that stays configured, unpaused and 'public' while the loop
\* stays running is recording again and again: after the first tick and after
\* every exit of its process.
C7_Convergence == \A n \in Names : <>[]Steady(n) => []<>Recording(n)

\* C8: while the host runs the loop, no tick throws and one tick or one timer
\* is always there to carry the loop on.
C8_LoopNeverDies ==
    /\ host # "crashed"
    /\ \A t \in BagToSet(ticks) : ~t.rejected
    /\ (Ready /\ running) => (InFlight # {} \/ Armed > 0)

\* C9: right after the sync and prune steps of a tick the registry holds the
\* configured names and the names that were recording, and no other.
C9_MembershipAfterTick ==
    [][TickStarted' =>
          Keys(streamers') = {n \in Names : Configured(n)'}
                               \cup {n \in Keys(streamers) : streamers[n].recording}]_vars

\* a tick has just started with a draining name and a configured one in the
\* registry
C9_Witness ==
    /\ TickStarted /\ Ready
    /\ \E n \in Keys(streamers) : ~Configured(n)
    /\ \E n \in Keys(streamers) : Configured(n)

Unique(seq) == \A i, j \in 1 .. Len(seq) : seq[i] = seq[j] => i = j

Untouched == UNCHANGED <<host, file, config, streamers, running, timeout, orphans, ticks, strays>>

\* C10: addStreamer fails as a duplicate exactly for a configured name,
\* removeStreamer fails as not found exactly for a non-empty name that is not
\* configured, both fail on an empty name; a failure changes nothing and a
\* success leaves the configured names unique.
C10_AddRemoveValidation ==
    [][\A n \in Names \cup {NoName} :
          /\ (last'.op = "addStreamer" /\ last'.name = n) =>
                /\ last'.res = ErrDuplicate <=> Configured(n)
                /\ last'.res = ErrNoParam <=> n = NoName
                /\ last'.res # "true" => Untouched
                /\ last'.res = "true" => (Configured(n)' /\ Unique(config'.streamers))
          /\ (last'.op = "removeStreamer" /\ last'.name = n) =>
                /\ last'.res = ErrNotInList <=> (n # NoName /\ ~Configured(n))
                /\ last'.res = ErrNoParam <=> n = NoName
                /\ last'.res # "true" => Untouched
                /\ last'.res = "true" => (~Configured(n)' /\ Unique(config'.streamers))]_vars

\* addStreamer has just refused a duplicate while a timer was armed
C10_Witness ==
    /\ last.op = "addStreamer" /\ last.res = ErrDuplicate
    /\ running /\ timeout = "armed"

\* C11: pauseStreamer(n) and resumeStreamer(n) return true, and set paused to
\* true, respectively false, for every non-empty n that is configured or in the
\* registry, also when n has no record yet; they fail as 'not in streamers
\* list', changing nothing, exactly when n is in neither.
C11_PauseResumeMembership ==
    [][\A n \in Names \cup {NoName} :
          (last'.op \in {"pauseStreamer", "resumeStreamer"} /\ last'.name = n) =>
             /\ (n # NoName /\ (Configured(n) \/ Has(n))) =>
                   /\ last'.res = "true"
                   /\ Has(n)' => streamers'[n].paused = (last'.op = "pauseStreamer")
             /\ last'.res = ErrNotInList <=> (n # NoName /\ ~Configured(n) /\ ~Has(n))
             /\ last'.res = ErrNotInList => Untouched]_vars

\* the fields of the registry the reconciliation decides
Fields(s) == [n \in Keys(s) |-> <<s[n].recording, s[n].paused, s[n].proc>>]

\* C12: two ticks in a row, with the same configuration, the same probe
\* results and spawn outcomes, and no process exit or admin call in between:
\* the second tick starts no process and leaves recording, paused and the
\* process of every record as the first tick left them.
C12_Idempotent ==
    (Ready /\ ticks = EmptyBag) =>
        \A infos \in [Names -> Infos], spawned \in [Names -> BOOLEAN] :
            LET s1 == RunOnce(streamers, config.streamers, infos, spawned)
                s2 == RunOnce(s1, config.streamers, infos, spawned)
            IN  /\ StartedBy(s1, config.streamers, infos, spawned) = {}
                /\ Fields(s2) = Fields(s1)

\* a tick has ended and the next one starts a process for n if n is 'public':
\* the first of the two ticks acts
C12_Witness ==
    /\ Ready /\ ticks = EmptyBag /\ running /\ timeout = "armed"
    /\ last.op = "probe"
    /\ \E n \in Names :
          StartedBy(streamers, config.streamers, [m \in Names |-> "public"],
                    [m \in Names |-> TRUE]) = {n}

\* some tick still awaits the probe of m
Probing(m) == \E t \in BagToSet(ticks) : m \in t.pending

\* the step is the return of a failed probe of n: getInfo gave false
FailedProbe(n) ==
    /\ last'.op = "probe" /\ last'.name = n
    /\ \/ last'.res = ErrType
       \/ last'.res = "ok" /\ Has(n)' /\ streamers'[n].meta = "false"

\* C13: when the probe of n fails, n's meta becomes false, no process is
\* started for n, no exception escapes the tick, and the other entities keep
\* their records and their probes of the same tick.
C13_ProbeFailureIsolated ==
    [][\A n \in Names : FailedProbe(n) =>
          /\ last'.res = "ok" /\ host' = "up"
          /\ \A t \in BagToSet(ticks') : ~t.rejected
          /\ Has(n)' /\ streamers'[n].meta = "false"
          /\ LiveProcs(n)' = LiveProcs(n)
          /\ \A m \in Names \ {n} :
                /\ Probing(m) => Probing(m)'
                /\ Has(m) => (Has(m)' /\ streamers'[m] = streamers[m])]_vars

\* the children started for n that have not exited and were never signalled
Unsignalled(n) ==
    (IF Has(n) /\ streamers[n].proc = NewProc THEN 1 ELSE 0)
    + CopiesIn([name |-> n, sig |-> FALSE], strays)

\* C14: stop(), from any state, leaves no timer armed and no tick in flight
\* and has signalled every child that was started and has not exited; after
\* it no tick runs and no process is started.
C14_Shutdown ==
    [][/\ (host = "up" /\ last'.op = "stop") =>
             /\ host' = "stopped" /\ Armed' = 0 /\ ticks' = EmptyBag
             /\ \A n \in Names : Unsignalled(n)' = 0 /\ LiveProcs(n)' = LiveProcs(n)
       /\ host = "stopped" =>
             /\ host' = "stopped" /\ Armed' = 0 /\ ticks' = EmptyBag
             /\ last' = last /\ streamers' = streamers
             /\ \A n \in Names : LiveProcs(n)' <= LiveProcs(n)]_vars

\* stop() has signalled a child that was recording, and the child has not
\* exited yet
C14_Witness ==
    /\ last.op = "stop" /\ host = "stopped"
    /\ \E n \in Names : CopiesIn([name |-> n, sig |-> TRUE], strays) = 1

\* C15: at most one timer is armed at any time and this.timeout holds it: no
\* call of run(), addStreamer() or resumeStreamer() leaves an armed timer that
\* pause() cannot cancel.
C15_SingleLoop == orphans = 0 /\ Armed <= 1

\* C16: every record that says recording holds a process that has not
\* reported exit or error, and every record that does not holds no process.
C16_RecordingHasProcess ==
    \A n \in Keys(streamers) :
        IF streamers[n].recording
        THEN streamers[n].proc.st = "live"
        ELSE streamers[n].proc = NoProc

\* m's process has just exited and its observer reset m's record, while n
\* records
C16_Witness ==
    \E n, m \in Keys(streamers) :
        /\ last = Label("exit", m, "ok") /\ ~streamers[m].recording
        /\ n # m /\ streamers[n].recording /\ streamers[n].proc.st = "live"

AddForcesTick(n) ==
    /\ Configured(n)' /\ file' = config'.streamers
    /\ orphans' = orphans /\ running' = running
    /\ IF running
       THEN /\ timeout' = "false" /\ Has(n)'
            /\ ticks' = ticks (+) SetToBag({[pending |-> Keys(streamers'), rejected |-> FALSE]})
       ELSE /\ timeout' # "armed"
            /\ ticks' = ticks /\ streamers' = streamers /\ strays' = strays

C19_StartedOnlyIfConfigured ==
    [][\A n \in Names : LiveProcs(n)' > LiveProcs(n) => (Configured(n) /\ Configured(n)')]_vars
====
